---- MODULE Spec2Model ----
(***************************************************************************)
(* Model of the design engine of src/app.py: BarProperties and the         *)
(* OneWaySlab class (calculate_initial_thickness ... design).              *)
(*                                                                         *)
(* Numbers.  The source computes in floating point; the model computes in  *)
(* integers with fixed units, rounding toward zero where a quotient is not *)
(* exact:                                                                  *)
(*   lengths (clear_span, h, user_h)            mm                         *)
(*   bar diameter                               1/10 mm                    *)
(*   cover                                      1/20 mm                    *)
(*   effective depth d                          1/20 mm   (exact)          *)
(*   loads, density                             1/10 kN/m2, 1/10 kN/m3     *)
(*   self_weight, total_dead, wu                1e-5 kN/m (exact)          *)
(*   moments                                    N.mm                       *)
(*   Rn                                         1e-6 MPa                   *)
(*   term, rho                                  1e-8                       *)
(*   steel areas                                1/100 mm2                  *)
(*   flexural spacing_req, spacing_max          1/1000 mm                  *)
(*   shrinkage As_req, spacing_req, spacing_max exact fractions <<n, d>>   *)
(*   shear forces                               1e-6 kN                    *)
(*   utilization                                1/100 percent              *)
(* An optional Python value (None or a number) is <<>> or <<v>>.           *)
(***************************************************************************)
EXTENDS Integers, Sequences, FiniteSets, TLC

VARIABLES BAR_DATA, THICKNESS_COEFFICIENTS, MOMENT_COEFFICIENT_VALUES, ctx,
          \* the calculator page of one browser session: the values of the
          \* input widgets, st.session_state, and what the last run of the
          \* script displayed
          widgets, session_state, rendered

vars == <<BAR_DATA, THICKNESS_COEFFICIENTS, MOMENT_COEFFICIENT_VALUES, ctx,
          widgets, session_state, rendered>>

(***************************************************************************)
(* Integer arithmetic helpers                                              *)
(***************************************************************************)
\* Saturation value of MulDiv: a quotient of Big or more is reported as Big.
Big == 536870912

Abs(x) == IF x < 0 THEN -x ELSE x

Sign(x) == IF x < 0 THEN -1 ELSE IF x = 0 THEN 0 ELSE 1

Max(x, y) == IF x >= y THEN x ELSE y

Min(x, y) == IF x <= y THEN x ELSE y

\* the largest integer of the checker, 2^31 - 1
MaxInt == 1073741823 * 2 + 1

Saturate(v) == IF v >= Big THEN Big ELSE v

\* floor(a*b/c) for 0 <= a, b < 2^30 and 0 < c < 2^29, without forming a*b:
\* long multiplication over the bits of b, carrying <<quotient, remainder>>,
\* where a = qa*c + ra.
MDStep(qr, bit, qa, ra, c) ==
    IF qr[1] >= Big THEN qr
    ELSE LET r2 == 2 * qr[2] + bit * ra
             q2 == 2 * qr[1] + bit * qa + (r2 \div c)
         IN IF q2 >= Big THEN <<Big, 0>> ELSE <<q2, r2 % c>>

RECURSIVE MDRec(_, _, _, _)
MDRec(qa, ra, b, c) ==
    IF b = 0 THEN <<0, 0>>
    ELSE MDStep(MDRec(qa, ra, b \div 2, c), b % 2, qa, ra, c)

MulDiv(a, b, c) ==
    IF a = 0 \/ b = 0 THEN 0
    ELSE IF a <= MaxInt \div b THEN Saturate((a * b) \div c)
    ELSE IF a \div c >= Big \/ b \div c >= Big THEN Big
    ELSE IF a >= b THEN MDRec(a \div c, a % c, b, c)[1]
    ELSE MDRec(b \div c, b % c, a, c)[1]

\* a*b/c rounded toward zero, any signs, c # 0
SMulDiv(a, b, c) ==
    Sign(a) * Sign(b) * Sign(c) * MulDiv(Abs(a), Abs(b), Abs(c))

\* math.ceil(a / b) for b > 0
CeilDiv(a, b) == -((-a) \div b)

\* floor(sqrt(n)) for 0 <= n < 2^31, by bisection: lo*lo <= n < hi*hi
RECURSIVE SqrtLoop(_, _, _)
SqrtLoop(n, lo, hi) ==
    IF hi - lo <= 1 THEN lo
    ELSE LET mid == (lo + hi) \div 2
         IN IF mid * mid <= n THEN SqrtLoop(n, mid, hi)
            ELSE SqrtLoop(n, lo, mid)

ISqrt(n) == SqrtLoop(n, 0, 46341)

\* 100 * sqrt(n): the integer root refined by one Newton step
Sqrt100(n) ==
    LET s0 == ISqrt(n)
    IN IF s0 = 0 THEN 0 ELSE 100 * s0 + ((n - s0 * s0) * 50) \div s0

\* exact fractions <<n, d>>, d > 0
FracLe(p, q) == p[1] * q[2] <= q[1] * p[2]

FracMin(p, q) == IF FracLe(p, q) THEN p ELSE q

\* math.floor of a fraction
FracFloor(p) == p[1] \div p[2]

None == <<>>

Some(v) == <<v>>


(***************************************************************************)
(* Class-level tables                                                      *)
(***************************************************************************)
\* BarProperties.BAR_DATA: diameter in 1/10 mm, area in mm2
BarCatalog ==
    ("#10" :> [diameter |-> 95,  area |-> 71])   @@
    ("#13" :> [diameter |-> 127, area |-> 129])  @@
    ("#16" :> [diameter |-> 159, area |-> 199])  @@
    ("#19" :> [diameter |-> 191, area |-> 284])  @@
    ("#22" :> [diameter |-> 222, area |-> 387])  @@
    ("#25" :> [diameter |-> 254, area |-> 510])  @@
    ("#29" :> [diameter |-> 287, area |-> 645])  @@
    ("#32" :> [diameter |-> 323, area |-> 819])  @@
    ("#36" :> [diameter |-> 358, area |-> 1006])

\* OneWaySlab.THICKNESS_COEFFICIENTS
ThicknessTable ==
    ("simply_supported" :> 20) @@ ("one_end_continuous" :> 24) @@
    ("both_ends_continuous" :> 28) @@ ("cantilever" :> 10)

\* OneWaySlab.MOMENT_COEFFICIENT_VALUES: the coefficient 1/k is stored as k
MomentTable ==
    ("exterior_negative" :> 24) @@ ("exterior_positive" :> 14) @@
    ("interior_negative_first" :> 10) @@ ("interior_positive" :> 16) @@
    ("interior_negative" :> 11) @@ ("simple_span" :> 8) @@
    ("cantilever" :> 2)

Supports == {"simply_supported", "one_end_continuous",
             "both_ends_continuous", "cantilever"}

(***************************************************************************)
(* BarProperties.__init__                                                  *)
(***************************************************************************)
\* variant: an unrecognised size falls back to the default '#13'
BarPropertiesDefault(bar_size) ==
    LET size == IF bar_size \in DOMAIN BAR_DATA THEN bar_size ELSE "#13"
    IN [ok |-> TRUE,
        bar |-> [bar_size |-> size,
                 diameter |-> BAR_DATA[size].diameter,
                 area     |-> BAR_DATA[size].area]]

BarProperties(bar_size) ==
    IF bar_size \notin DOMAIN BAR_DATA
    THEN [ok |-> FALSE, err |-> "ValueError"]
    ELSE [ok |-> TRUE,
          bar |-> [bar_size |-> bar_size,
                   diameter |-> BAR_DATA[bar_size].diameter,
                   area     |-> BAR_DATA[bar_size].area]]

(***************************************************************************)
(* OneWaySlab.__init__ : the state of a freshly constructed instance.      *)
(* pc, err, at, calls, todo, self_weight, total_dead and ret are the       *)
(* control state and locals of design() (at: the stage an exception was    *)
(* raised in) and the list of results it has returned; inputs are the      *)
(* values the caller configured the instance from.                         *)
(***************************************************************************)
EmptyMap == [x \in {} |-> 0]

NewSlab ==
    [clear_span |-> None, material |-> None, loads |-> None,
     support_condition |-> None, main_bar |-> None, shrinkage_bar |-> None,
     user_h |-> None, h |-> None, d |-> None, wu |-> None,
     moments |-> EmptyMap, reinforcement |-> EmptyMap,
     shrinkage |-> None, shear |-> None, notes |-> <<>>,
     pc |-> "init", err |-> "", at |-> "", calls |-> 0, todo |-> <<>>,
     self_weight |-> None, total_dead |-> None, ret |-> <<>>,
     inputs |-> None]

\* number of design() calls made on one instance
MaxCalls == 2

(***************************************************************************)
(* Inputs                                                                  *)
(***************************************************************************)
\* load cases <<superimposed_dead, live_load, concrete_density>>
LoadCases == {<<0, 0, 0>>, <<0, 0, 250>>, <<15, 30, 250>>, <<200, 300, 250>>}

MkInput(span, sup, uh, cov, mb, sb, fc, fy, ld) ==
    [clear_span |-> span, support_condition |-> sup, user_thickness |-> uh,
     cover |-> cov, main_bar |-> mb, shrinkage_bar |-> sb,
     fc_prime |-> fc, fy |-> fy, concrete_density |-> ld[3],
     superimposed_dead |-> ld[1], live_load |-> ld[2]]

\* "#11" and "#9" are not catalog sizes; cover 905 is 45.25 mm
Inputs ==
    { MkInput(span, sup, uh, cov, mb, sb, fc, fy, ld) :
        span \in {-1000, 0, 1500, 3500}, sup \in Supports,
        uh \in {None, Some(50), Some(150), Some(500)}, cov \in {400, 800, 905},
        mb \in {"#10", "#13", "#25", "#11"}, sb \in {"#10", "#9"},
        fc \in {-28, 0, 28}, fy \in {-420, 0, 275, 420},
        ld \in LoadCases }

(***************************************************************************)
(* The caller's set-up of an instance (main, lines 817-835)                *)
(***************************************************************************)
\* Python truth value of an optional number
Truthy(opt) == opt # None /\ opt[1] # 0

Fail(s, e) == [s EXCEPT !.at = s.pc, !.pc = "failed", !.err = e]

SetUp(s, in) ==
    LET s1 == [s EXCEPT !.inputs = Some(in),
                        !.clear_span = Some(in.clear_span),
                        !.material = Some([fc_prime |-> in.fc_prime,
                                           fy |-> in.fy,
                                           concrete_density |-> in.concrete_density,
                                           cover |-> in.cover]),
                        !.loads = Some([superimposed_dead |-> in.superimposed_dead,
                                        live_load |-> in.live_load]),
                        !.support_condition = Some(in.support_condition)]
        mb == BarProperties(in.main_bar)
        sb == BarProperties(in.shrinkage_bar)
    IN IF ~mb.ok THEN Fail(s1, mb.err)
       ELSE LET s2 == [s1 EXCEPT !.main_bar = Some(mb.bar)]
            IN IF ~sb.ok THEN Fail(s2, sb.err)
               ELSE LET s3 == [s2 EXCEPT !.shrinkage_bar = Some(sb.bar)]
                        \* if user_thickness: slab.user_h = user_thickness
                        s4 == IF Truthy(in.user_thickness)
                              THEN [s3 EXCEPT !.user_h = in.user_thickness]
                              ELSE s3
                    IN [s4 EXCEPT !.pc = "configured"]

Tables == <<BAR_DATA, THICKNESS_COEFFICIENTS, MOMENT_COEFFICIENT_VALUES>>

Page == <<widgets, session_state, rendered>>

ConfigureFrom(c, S) ==
    /\ ctx[c].pc = "init"
    /\ \E in \in S : ctx' = [ctx EXCEPT ![c] = SetUp(ctx[c], in)]
    /\ UNCHANGED <<Tables, Page>>

Configure(c) == ConfigureFrom(c, Inputs)

(***************************************************************************)
(* design(): entry                                                         *)
(***************************************************************************)
DesignCall(c) ==
    /\ ctx[c].pc \in {"configured", "done"}
    /\ ctx[c].calls < MaxCalls
    /\ ctx' = [ctx EXCEPT ![c].pc = "thickness", ![c].calls = @ + 1]
    /\ UNCHANGED <<Tables, Page>>

(***************************************************************************)
(* calculate_initial_thickness                                             *)
(***************************************************************************)
\* variant: rounds to the nearest multiple of 10 instead of up
HRoundedNearest(clear_span, coefficient) ==
    ((clear_span \div coefficient + 5) \div 10) * 10

HRounded(clear_span, coefficient) == CeilDiv(clear_span, coefficient * 10) * 10

BelowMinimumNote(user_thickness, h_rounded) ==
    [warning |-> "below_minimum", user |-> user_thickness, minimum |-> h_rounded]

\* variant: a user thickness below the minimum is replaced by the minimum,
\* one equal to the minimum is reported as below it
calculate_initial_thickness_min(s, clear_span, support_condition, user_thickness) ==
    LET coefficient == THICKNESS_COEFFICIENTS[support_condition]
        h_rounded   == HRounded(clear_span, coefficient)
    IN IF Truthy(user_thickness)
       THEN IF user_thickness[1] <= h_rounded
            THEN [s EXCEPT !.notes = Append(@, BelowMinimumNote(user_thickness[1], h_rounded)),
                           !.h = Some(h_rounded)]
            ELSE [s EXCEPT !.h = Some(user_thickness[1])]
       ELSE [s EXCEPT !.h = Some(h_rounded)]

calculate_initial_thickness(s, clear_span, support_condition, user_thickness) ==
    LET coefficient == THICKNESS_COEFFICIENTS[support_condition]
        h_rounded   == HRounded(clear_span, coefficient)
    IN IF Truthy(user_thickness)
       THEN IF user_thickness[1] < h_rounded
            THEN [s EXCEPT !.notes = Append(@, BelowMinimumNote(user_thickness[1], h_rounded)),
                           !.h = Some(user_thickness[1])]
            ELSE [s EXCEPT !.h = Some(user_thickness[1])]
       ELSE [s EXCEPT !.h = Some(h_rounded)]

\* variant: notes is one list shared by every instance (a class attribute)
ThicknessSharedNotes(c) ==
    /\ ctx[c].pc = "thickness"
    /\ LET t == calculate_initial_thickness(ctx[c], ctx[c].clear_span[1],
                      ctx[c].support_condition[1], ctx[c].user_h)
           added == SubSeq(t.notes, Len(ctx[c].notes) + 1, Len(t.notes))
       IN ctx' = [x \in DOMAIN ctx |->
                    IF x = c THEN [t EXCEPT !.pc = "load"]
                    ELSE [ctx[x] EXCEPT !.notes = @ \o added]]
    /\ UNCHANGED <<Tables, Page>>

Thickness(c) ==
    /\ ctx[c].pc = "thickness"
    /\ ctx' = [ctx EXCEPT ![c] =
                 [calculate_initial_thickness(ctx[c], ctx[c].clear_span[1],
                      ctx[c].support_condition[1], ctx[c].user_h)
                  EXCEPT !.pc = "load"]]
    /\ UNCHANGED <<Tables, Page>>

(***************************************************************************)
(* calculate_factored_load                                                 *)
(***************************************************************************)
SelfWeight(h, concrete_density) == 10 * h * concrete_density

TotalDead(superimposed_dead, self_weight) == 10000 * superimposed_dead + self_weight

\* variant: the load factors 1.4 and 1.7
FactoredLoadOldFactors(total_dead, live_load) ==
    (14 * total_dead) \div 10 + 17000 * live_load

FactoredLoadOf(total_dead, live_load) == (12 * total_dead) \div 10 + 16000 * live_load

\* variant: the factored load is computed only while self.wu is still None
calculate_factored_load_once(s) ==
    IF s.wu # None THEN s
    ELSE LET self_weight == SelfWeight(s.h[1], s.material[1].concrete_density)
             total_dead  == TotalDead(s.loads[1].superimposed_dead, self_weight)
         IN [s EXCEPT !.wu = Some(FactoredLoadOf(total_dead, s.loads[1].live_load)),
                      !.total_dead = Some(total_dead),
                      !.self_weight = Some(self_weight)]

calculate_factored_load(s) ==
    LET self_weight == SelfWeight(s.h[1], s.material[1].concrete_density)
        total_dead  == TotalDead(s.loads[1].superimposed_dead, self_weight)
    IN [s EXCEPT !.wu = Some(FactoredLoadOf(total_dead, s.loads[1].live_load)),
                 !.total_dead = Some(total_dead),
                 !.self_weight = Some(self_weight)]

FactoredLoad(c) ==
    /\ ctx[c].pc = "load"
    /\ ctx' = [ctx EXCEPT ![c] = [calculate_factored_load(ctx[c]) EXCEPT !.pc = "moments"]]
    /\ UNCHANGED <<Tables, Page>>


(***************************************************************************)
(* calculate_moments                                                       *)
(***************************************************************************)
\* location keys in insertion order, each with the name of its coefficient
\* variant: the one-end-continuous case takes the interior-span coefficients
MomentPlanInterior(support_condition) ==
    CASE support_condition = "simply_supported" ->
           << <<"Positive Moment (Midspan)", "simple_span">> >>
      [] support_condition = "one_end_continuous" ->
           << <<"Negative Moment (Exterior Support)", "exterior_negative">>,
              <<"Positive Moment (Midspan)", "interior_positive">>,
              <<"Negative Moment (First Interior Support)", "interior_negative">> >>
      [] support_condition = "both_ends_continuous" ->
           << <<"Negative Moment (Supports)", "interior_negative">>,
              <<"Positive Moment (Midspan)", "interior_positive">> >>
      [] support_condition = "cantilever" ->
           << <<"Negative Moment (Support)", "cantilever">> >>

MomentPlan(support_condition) ==
    CASE support_condition = "simply_supported" ->
           << <<"Positive Moment (Midspan)", "simple_span">> >>
      [] support_condition = "one_end_continuous" ->
           << <<"Negative Moment (Exterior Support)", "exterior_negative">>,
              <<"Positive Moment (Midspan)", "exterior_positive">>,
              <<"Negative Moment (First Interior Support)", "interior_negative_first">> >>
      [] support_condition = "both_ends_continuous" ->
           << <<"Negative Moment (Supports)", "interior_negative">>,
              <<"Positive Moment (Midspan)", "interior_positive">> >>
      [] support_condition = "cantilever" ->
           << <<"Negative Moment (Support)", "cantilever">> >>

\* coeff * wu * (clear_span/1000)^2, in N.mm, the coefficient being 1/k
MomentValue(k, wu, clear_span) == SMulDiv(wu, clear_span * clear_span, 100000 * k)

calculate_moments(s) ==
    LET plan == MomentPlan(s.support_condition[1])
        locs == {plan[i][1] : i \in DOMAIN plan}
        coef(loc) == LET i == CHOOSE j \in DOMAIN plan : plan[j][1] = loc
                     IN MOMENT_COEFFICIENT_VALUES[plan[i][2]]
    IN [s EXCEPT !.moments =
            [loc \in locs |-> MomentValue(coef(loc), s.wu[1], s.clear_span[1])]]

Moments(c) ==
    /\ ctx[c].pc = "moments"
    /\ ctx' = [ctx EXCEPT ![c] = [calculate_moments(ctx[c]) EXCEPT !.pc = "depth"]]
    /\ UNCHANGED <<Tables, Page>>

(***************************************************************************)
(* calculate_effective_depth                                               *)
(***************************************************************************)
EffectiveDepthOf(h, cover, diameter) == 20 * h - cover - diameter

calculate_effective_depth(s) ==
    [s EXCEPT !.d = Some(EffectiveDepthOf(s.h[1], s.material[1].cover,
                                          s.main_bar[1].diameter))]

\* The locations of the moments map in iteration (insertion) order
MomentOrder(s) ==
    LET plan == MomentPlan(s.support_condition[1])
    IN [i \in DOMAIN plan |-> plan[i][1]]

\* variant: the reinforcement map is not reset before the loop
EffectiveDepthKeepsMap(c) ==
    /\ ctx[c].pc = "depth"
    /\ ctx' = [ctx EXCEPT ![c] =
                 [calculate_effective_depth(ctx[c])
                  EXCEPT !.todo = MomentOrder(ctx[c]),
                         !.pc = IF MomentOrder(ctx[c]) = <<>> THEN "shrinkage" ELSE "steel"]]
    /\ UNCHANGED <<Tables, Page>>

\* design() lines 282-284: effective depth, then the reinforcement map is
\* reset and the loop over self.moments.items() begins
EffectiveDepth(c) ==
    /\ ctx[c].pc = "depth"
    /\ ctx' = [ctx EXCEPT ![c] =
                 [calculate_effective_depth(ctx[c])
                  EXCEPT !.reinforcement = EmptyMap,
                         !.todo = MomentOrder(ctx[c]),
                         !.pc = IF MomentOrder(ctx[c]) = <<>> THEN "shrinkage" ELSE "steel"]]
    /\ UNCHANGED <<Tables, Page>>

(***************************************************************************)
(* calculate_required_steel                                                *)
(***************************************************************************)
\* Rn = Mu_nmm / (phi * b * d^2), phi = 0.9, b = 1000
RnOf(Mu, d) ==
    LET q == MulDiv(Mu, 4000000, d * d)
    IN IF q >= Big THEN Big ELSE q \div 9

\* term = 1 - 2*m*Rn/fy with m = fy/(0.85*fc_prime)
TermOf(Rn, fc_prime) == 100000000 - SMulDiv(Rn, 4000, 17 * fc_prime)

\* the fixed ceiling 0.02
RhoCeiling == 2000000

\* variant: 0.02 is applied as a cap on every rho
RhoCapped(term, fc_prime, fy) ==
    IF term < 0 THEN RhoCeiling
    ELSE Min(RhoCeiling, SMulDiv(85 * fc_prime, 1000000 - Sqrt100(term), fy))

\* rho: 0.02 if term < 0, else (1/m) * (1 - sqrt(term))
RhoOf(term, fc_prime, fy) ==
    IF term < 0 THEN RhoCeiling
    ELSE SMulDiv(85 * fc_prime, 1000000 - Sqrt100(term), fy)

\* As_req = rho * b * d
AsReqOf(rho, d) == SMulDiv(rho, d, 20000)

\* As_min from Ag = b * h
AsMinOf(h, fy) ==
    IF fy < 420 THEN 200 * h
    ELSE Max(SMulDiv(75600, h, fy), 140 * h)

\* spacing_req = 1000 * bar area / As_final
SpacingReqOf(area, As_final) == SMulDiv(100000 * area, 1000, As_final)

\* spacing_max = min(spacing_req, min(3h, 450))
SpacingMaxOf(spacing_req, h) == Min(spacing_req, 1000 * Min(3 * h, 450))

\* variant: rounds the spacing up to a multiple of 25
SpacingFinalCeil(spacing_max) == Max(75, CeilDiv(spacing_max, 25000) * 25)

\* spacing_final = max(75, floor(spacing_max / 25) * 25)
SpacingFinalOf(spacing_max) == Max(75, (spacing_max \div 25000) * 25)

\* variant: the provided area taken at the next wider spacing step
AsProvAtNextStep(area, spacing_final) == (100000 * area) \div (spacing_final + 25)

\* As_provided = 1000 * bar area / spacing_final
AsProvOf(area, spacing_final) == (100000 * area) \div spacing_final

calculate_required_steel(s, Mu, location) ==
    LET d  == s.d[1]
        h  == s.h[1]
        fc == s.material[1].fc_prime
        fy == s.material[1].fy
        bar == s.main_bar[1]
    IN IF Mu <= 0 THEN [ok |-> TRUE, result |-> None]
       ELSE IF d = 0 \/ fc = 0 \/ fy = 0
            THEN [ok |-> FALSE, err |-> "ZeroDivisionError"]
       ELSE LET Rn   == RnOf(Mu, d)
                term == TermOf(Rn, fc)
                rho  == RhoOf(term, fc, fy)
                As_req   == AsReqOf(rho, d)
                As_min   == AsMinOf(h, fy)
                As_final == Max(As_req, As_min)
            IN IF As_final = 0 THEN [ok |-> FALSE, err |-> "ZeroDivisionError"]
               ELSE LET spacing_req   == SpacingReqOf(bar.area, As_final)
                        spacing_max   == SpacingMaxOf(spacing_req, h)
                        spacing_final == SpacingFinalOf(spacing_max)
                    IN [ok |-> TRUE,
                        result |-> Some(
                          [location |-> location, Mu |-> Mu, Rn |-> Rn,
                           rho |-> rho,
                           As_req |-> As_req, As_min |-> As_min,
                           As_final |-> As_final,
                           As_prov |-> AsProvOf(bar.area, spacing_final),
                           spacing_req |-> spacing_req,
                           spacing_max |-> spacing_max,
                           spacing_final |-> spacing_final,
                           bar_size |-> bar.bar_size, bar_area |-> bar.area])]

\* m@@ with the new key added (dict item assignment)
MapPut(m, k, v) == [x \in DOMAIN m \cup {k} |-> IF x = k THEN v ELSE m[x]]

\* one iteration of the loop of design() lines 285-288
RequiredSteel(c) ==
    /\ ctx[c].pc = "steel"
    /\ LET s == ctx[c]
           location == Head(s.todo)
           r == calculate_required_steel(s, s.moments[location], location)
           rest == Tail(s.todo)
           nextpc == IF rest = <<>> THEN "shrinkage" ELSE "steel"
       IN ctx' = [ctx EXCEPT ![c] =
                    IF ~r.ok THEN Fail(s, r.err)
                    ELSE IF r.result = None
                         THEN [s EXCEPT !.todo = rest, !.pc = nextpc]
                         ELSE [s EXCEPT !.reinforcement = MapPut(@, location, r.result[1]),
                                        !.todo = rest, !.pc = nextpc]]
    /\ UNCHANGED <<Tables, Page>>


(***************************************************************************)
(* calculate_shrinkage_steel                                               *)
(***************************************************************************)
\* a fraction with a positive denominator
FracNorm(n, d) == IF d < 0 THEN <<-n, -d>> ELSE <<n, d>>

\* As_sh_req from Ag = 1000 * h
AsShReqOf(h, fy) == IF fy < 420 THEN <<2 * h, 1>> ELSE <<756 * h, fy>>

\* spacing_req = 1000 * bar area / As_sh_req
ShSpacingReqOf(area, As_sh_req) == FracNorm(1000 * area * As_sh_req[2], As_sh_req[1])

\* spacing_max = min(spacing_req, min(5h, 450))
ShSpacingMaxOf(spacing_req, h) == FracMin(spacing_req, <<Min(5 * h, 450), 1>>)

\* variant: the 75 mm floor of the flexural spacing applied here too
ShSpacingFinalFloor75(spacing_max) ==
    Max(75, FracFloor(<<spacing_max[1], 25 * spacing_max[2]>>) * 25)

\* spacing_final = floor(spacing_max / 25) * 25
ShSpacingFinalOf(spacing_max) == FracFloor(<<spacing_max[1], 25 * spacing_max[2]>>) * 25

calculate_shrinkage_steel(s) ==
    LET h   == s.h[1]
        fy  == s.material[1].fy
        bar == s.shrinkage_bar[1]
        As_sh_req == AsShReqOf(h, fy)
    IN IF As_sh_req[1] = 0 THEN [ok |-> FALSE, err |-> "ZeroDivisionError"]
       ELSE LET spacing_req   == ShSpacingReqOf(bar.area, As_sh_req)
                spacing_max   == ShSpacingMaxOf(spacing_req, h)
                spacing_final == ShSpacingFinalOf(spacing_max)
            IN IF spacing_final = 0 THEN [ok |-> FALSE, err |-> "ZeroDivisionError"]
               ELSE [ok |-> TRUE,
                     result |-> [As_req |-> As_sh_req,
                                 As_prov |-> FracNorm(1000 * bar.area, spacing_final),
                                 spacing_req |-> spacing_req,
                                 spacing_max |-> spacing_max,
                                 spacing_final |-> spacing_final,
                                 bar_size |-> bar.bar_size,
                                 bar_area |-> bar.area]]

Shrinkage(c) ==
    /\ ctx[c].pc = "shrinkage"
    /\ LET r == calculate_shrinkage_steel(ctx[c])
       IN ctx' = [ctx EXCEPT ![c] =
                    IF ~r.ok THEN Fail(ctx[c], r.err)
                    ELSE [ctx[c] EXCEPT !.shrinkage = Some(r.result), !.pc = "shear"]]
    /\ UNCHANGED <<Tables, Page>>

(***************************************************************************)
(* check_shear                                                             *)
(***************************************************************************)
\* Vu before the clamp, per support condition
\* variant: one end continuous takes the simple-span shear, without the
\* 1.15 factor of the first interior support
VuOfSimpleOnly(support_condition, wu, clear_span, d) ==
    CASE support_condition = "cantilever" -> SMulDiv(wu, clear_span, 100)
      [] OTHER -> SMulDiv(wu, 10 * clear_span - d, 2000)

VuOf(support_condition, wu, clear_span, d) ==
    LET Vu_simple == SMulDiv(wu, 10 * clear_span - d, 2000)
    IN CASE support_condition = "simply_supported" -> Vu_simple
         [] support_condition = "one_end_continuous" ->
               Max(Vu_simple, SMulDiv(wu, 23 * clear_span - 2 * d, 4000))
         [] support_condition = "both_ends_continuous" -> Vu_simple
         [] support_condition = "cantilever" -> SMulDiv(wu, clear_span, 100)
         [] OTHER -> SMulDiv(wu, clear_span, 200)

\* math.sqrt(fc_prime), in 1e-5
SqrtFc(fc_prime) == Sqrt100(fc_prime * 1000000)

\* Vc = 0.17 * lamda * sqrt_fc * 1000 * d / 1000
VcOf(sqrt_fc, d) == SMulDiv(8500 * d, sqrt_fc, 100000)

\* phiVc = 0.75 * Vc
PhiVcOf(sqrt_fc, d) == SMulDiv(6375 * d, sqrt_fc, 100000)

\* variant: the division is made whenever phiVc is not negative
UtilizationUnguarded(Vu, phiVc) ==
    IF phiVc = 0 THEN [ok |-> FALSE, value |-> 0]
    ELSE IF phiVc > 0 THEN [ok |-> TRUE, value |-> MulDiv(Vu, 10000, phiVc)]
    ELSE [ok |-> TRUE, value |-> 0]

\* utilization = (Vu / phiVc) * 100 if phiVc > 0 else 0
\* (ok: no ZeroDivisionError was raised)
UtilizationOf(Vu, phiVc) ==
    IF phiVc > 0 THEN [ok |-> TRUE, value |-> MulDiv(Vu, 10000, phiVc)]
    ELSE [ok |-> TRUE, value |-> 0]

StatusOf(Vu, phiVc) == IF Vu <= phiVc THEN "PASS" ELSE "FAIL"

check_shear(s) ==
    LET fc == s.material[1].fc_prime
        Vu == Max(VuOf(s.support_condition[1], s.wu[1], s.clear_span[1], s.d[1]), 0)
    IN IF fc < 0 THEN [ok |-> FALSE, err |-> "ValueError"]
       ELSE LET sqrt_fc == SqrtFc(fc)
                Vc      == VcOf(sqrt_fc, s.d[1])
                phiVc   == PhiVcOf(sqrt_fc, s.d[1])
                utilization == UtilizationOf(Vu, phiVc)
            IN IF ~utilization.ok THEN [ok |-> FALSE, err |-> "ZeroDivisionError"]
               ELSE [ok |-> TRUE,
                     result |-> [Vu |-> Vu, Vc |-> Vc, phiVc |-> phiVc,
                                 utilization |-> utilization.value,
                                 status |-> StatusOf(Vu, phiVc)]]

\* variant: a failed shear check sends the run back to the thickness stage
\* with a thicker slab
ShearRetry(c) ==
    /\ ctx[c].pc = "shear"
    /\ LET r == check_shear(ctx[c])
       IN ctx' = [ctx EXCEPT ![c] =
                    IF ~r.ok THEN Fail(ctx[c], r.err)
                    ELSE IF r.result.status = "FAIL"
                         THEN [ctx[c] EXCEPT !.user_h = Some(ctx[c].h[1] + 25),
                                             !.pc = "thickness"]
                         ELSE [ctx[c] EXCEPT !.shear = Some(r.result), !.pc = "return"]]
    /\ UNCHANGED <<Tables, Page>>

Shear(c) ==
    /\ ctx[c].pc = "shear"
    /\ LET r == check_shear(ctx[c])
       IN ctx' = [ctx EXCEPT ![c] =
                    IF ~r.ok THEN Fail(ctx[c], r.err)
                    ELSE [ctx[c] EXCEPT !.shear = Some(r.result), !.pc = "return"]]
    /\ UNCHANGED <<Tables, Page>>

(***************************************************************************)
(* design(): the returned record.  moments, reinforcement, shrinkage and   *)
(* shear are objects created by this call; 'notes' is the instance's own   *)
(* list object, held by reference.                                         *)
(***************************************************************************)
ResultOf(c, s) ==
    [thickness |-> s.h, effective_depth |-> s.d, factored_load |-> s.wu,
     self_weight |-> s.self_weight, total_dead |-> s.total_dead,
     moments |-> s.moments, reinforcement |-> s.reinforcement,
     shrinkage |-> s.shrinkage, shear |-> s.shear,
     notes |-> [ref |-> c]]

ReturnResult(c) ==
    /\ ctx[c].pc = "return"
    /\ ctx' = [ctx EXCEPT ![c].ret = Append(@, ResultOf(c, ctx[c])),
                          ![c].pc = "done"]
    /\ UNCHANGED <<Tables, Page>>

\* what a holder of result r observes: the notes list is read through the reference
View(r) == [r EXCEPT !.notes = ctx[r.notes.ref].notes]

(***************************************************************************)
(* design() as a function: the outcome of one call on an instance in state *)
(* s, every stage applied in the order of lines 279-291                     *)
(***************************************************************************)
RECURSIVE SteelLoop(_, _)
SteelLoop(s, todo) ==
    IF todo = <<>> THEN [ok |-> TRUE, s |-> s]
    ELSE LET location == Head(todo)
             r == calculate_required_steel(s, s.moments[location], location)
         IN IF ~r.ok THEN [ok |-> FALSE, err |-> r.err]
            ELSE IF r.result = None THEN SteelLoop(s, Tail(todo))
            ELSE SteelLoop([s EXCEPT !.reinforcement = MapPut(@, location, r.result[1])],
                           Tail(todo))

DesignOf(s) ==
    LET s1 == calculate_initial_thickness(s, s.clear_span[1],
                                          s.support_condition[1], s.user_h)
        s2 == calculate_factored_load(s1)
        s3 == calculate_moments(s2)
        s4 == [calculate_effective_depth(s3) EXCEPT !.reinforcement = EmptyMap]
        l  == SteelLoop(s4, MomentOrder(s4))
    IN IF ~l.ok THEN [ok |-> FALSE, err |-> l.err]
       ELSE LET sh == calculate_shrinkage_steel(l.s)
            IN IF ~sh.ok THEN [ok |-> FALSE, err |-> sh.err]
               ELSE LET s6 == [l.s EXCEPT !.shrinkage = Some(sh.result)]
                        v  == check_shear(s6)
                    IN IF ~v.ok THEN [ok |-> FALSE, err |-> v.err]
                       ELSE LET s7 == [s6 EXCEPT !.shear = Some(v.result)]
                            IN [ok |-> TRUE,
                                result |-> [ResultOf(0, s7) EXCEPT !.notes = s7.notes]]

(***************************************************************************)
(* Specification: one instance, designed up to MaxCalls times              *)
(***************************************************************************)
InitTables ==
    /\ BAR_DATA = BarCatalog
    /\ THICKNESS_COEFFICIENTS = ThicknessTable
    /\ MOMENT_COEFFICIENT_VALUES = MomentTable

\* the widgets' default values (lines 682-803); generate_report is the
\* "Generate detailed report" checkbox
DefaultWidgets ==
    [in |-> MkInput(3500, "simply_supported", None, 400, "#13", "#13", 28, 420,
                    <<15, 30, 250>>),
     generate_report |-> TRUE]

\* st.session_state of a new session: a key that is absent reads as None
NewSession == [results |-> None, inputs |-> None]

InitPage ==
    /\ widgets = DefaultWidgets
    /\ session_state = NewSession
    /\ rendered = None

Init ==
    /\ InitTables
    /\ InitPage
    /\ ctx = [c \in {1} |-> NewSlab]

Step(c) ==
    \/ DesignCall(c)
    \/ Thickness(c)
    \/ FactoredLoad(c)
    \/ Moments(c)
    \/ EffectiveDepth(c)
    \/ RequiredSteel(c)
    \/ Shrinkage(c)
    \/ Shear(c)
    \/ ReturnResult(c)

Next ==
    \E c \in DOMAIN ctx :
        \/ Configure(c)
        \/ Step(c)

Spec == Init /\ [][Next]_vars

(***************************************************************************)
(* Specification of two instances, each configured and designed by its own *)
(* caller, their stages interleaved                                        *)
(***************************************************************************)
PairInputs ==
    { MkInput(3500, sup, uh, 400, mb, "#10", fc, 420, <<15, 30, 250>>) :
        sup \in {"simply_supported", "one_end_continuous"},
        uh \in {None, Some(50)}, mb \in {"#13", "#11"}, fc \in {0, 28} }

ConfigurePair(c) == ConfigureFrom(c, PairInputs)

InitPair ==
    /\ InitTables
    /\ InitPage
    /\ ctx = [c \in {1, 2} |-> NewSlab]

NextPair ==
    \E c \in DOMAIN ctx :
        \/ ConfigurePair(c)
        \/ Step(c)

SpecPair == InitPair /\ [][NextPair]_vars

(***************************************************************************)
(* Specification of the thickness stage alone: every clear span of         *)
(* 1..MaxSpan mm, every support condition, no override                     *)
(***************************************************************************)
MaxSpan == 10000

SpanInputs ==
    { MkInput(span, sup, None, 400, "#13", "#13", 28, 420, <<15, 30, 250>>) :
        span \in 1..MaxSpan, sup \in Supports }

ConfigureSpan(c) == ConfigureFrom(c, SpanInputs)

NextThickness ==
    \E c \in DOMAIN ctx :
        \/ ConfigureSpan(c)
        \/ DesignCall(c)
        \/ Thickness(c)

SpecThickness == Init /\ [][NextThickness]_vars

(***************************************************************************)
(* Specification of one instance that is designed, has its public          *)
(* attributes assigned again by the caller, and is designed once more      *)
(***************************************************************************)
RerunInputs ==
    { MkInput(3500, sup, uh, 400, "#13", "#10", fc, 420, ld) :
        sup \in {"simply_supported", "one_end_continuous"},
        uh \in {None, Some(50), Some(150)}, fc \in {0, 28},
        ld \in {<<0, 0, 0>>, <<15, 30, 250>>, <<200, 300, 250>>} }

ConfigureRerun(c) == ConfigureFrom(c, RerunInputs)

\* the caller assigns the attributes of an instance it has already designed
\* (the bars stay as they are)
Reassign(s, in) ==
    [s EXCEPT !.inputs = Some(in),
              !.clear_span = Some(in.clear_span),
              !.material = Some([fc_prime |-> in.fc_prime,
                                 fy |-> in.fy,
                                 concrete_density |-> in.concrete_density,
                                 cover |-> in.cover]),
              !.loads = Some([superimposed_dead |-> in.superimposed_dead,
                              live_load |-> in.live_load]),
              !.support_condition = Some(in.support_condition),
              !.user_h = in.user_thickness,
              !.pc = "configured"]

Reconfigure(c) ==
    /\ ctx[c].pc = "done"
    /\ ctx[c].calls < MaxCalls
    /\ \E in \in RerunInputs : ctx' = [ctx EXCEPT ![c] = Reassign(ctx[c], in)]
    /\ UNCHANGED <<Tables, Page>>

NextRerun ==
    \E c \in DOMAIN ctx :
        \/ ConfigureRerun(c)
        \/ Reconfigure(c)
        \/ Step(c)

SpecRerun == Init /\ [][NextRerun]_vars


(***************************************************************************)
(* Specification of the calculator page (main, lines 674-1076).  Every     *)
(* interaction (an edit of an input widget, a click) runs the script once  *)
(* from top to bottom with the widgets' current values; an action is one   *)
(* such run.  The support condition is kept by its key; the page shows it  *)
(* by its label, one label per key.                                        *)
(***************************************************************************)
\* values the widgets can take, within the widgets' ranges
SessionInputs ==
    { MkInput(span, sup, uh, cov, "#13", "#13", 28, 420, <<15, 30, 250>>) :
        span \in {3500, 5000}, sup \in {"simply_supported", "cantilever"},
        uh \in {None, Some(150)}, cov \in {400, 600} }

SessionWidgets ==
    { [in |-> in, generate_report |-> g] : in \in SessionInputs, g \in BOOLEAN }

\* the two differ in the value of exactly one widget
OneEdit(w1, w2) ==
    Cardinality({f \in DOMAIN w1.in : w1.in[f] # w2.in[f]})
      + (IF w1.generate_report # w2.generate_report THEN 1 ELSE 0) = 1

\* lines 815-838 as a function: the outcome of configuring a new OneWaySlab
\* from the given widget values and designing it
CalculateOutcome(in) ==
    LET s == SetUp(NewSlab, in)
    IN IF s.pc = "failed" THEN [ok |-> FALSE, err |-> s.err] ELSE DesignOf(s)

\* the INPUT PARAMETERS section of the report (lines 1006-1015): the current
\* values of the widgets it names
ReportInputs(in) ==
    [clear_span |-> in.clear_span, support_condition |-> in.support_condition,
     fc_prime |-> in.fc_prime, fy |-> in.fy,
     superimposed_dead |-> in.superimposed_dead, live_load |-> in.live_load,
     main_bar |-> in.main_bar, shrinkage_bar |-> in.shrinkage_bar]

\* lines 854-1071: what a run of the script displays below the inputs, given
\* the widgets and the session state it ends with
Display(w, ss) ==
    IF ss.results = None THEN None
    ELSE Some([results |-> ss.results[1],
               report |-> IF w.generate_report
                          THEN Some([inputs |-> ReportInputs(w.in),
                                     results |-> ss.results[1]])
                          ELSE None])

\* no calculation is under way: the script is not inside the Calculate branch
Idle == ctx[1].pc \in {"init", "stored", "stopped"}

\* the user changes a widget: the script runs with calculate = False
EditInput ==
    /\ Idle
    /\ \E w \in SessionWidgets :
         /\ OneEdit(widgets, w)
         /\ widgets' = w
         /\ rendered' = Display(w, session_state)
    /\ UNCHANGED <<session_state, ctx, Tables>>

\* the Calculate button (lines 808-835): a new OneWaySlab is constructed and
\* configured from the widgets; design() then runs on it stage by stage
ClickCalculate ==
    /\ Idle
    /\ ctx' = [ctx EXCEPT ![1] = SetUp(NewSlab, widgets.in)]
    /\ UNCHANGED <<Tables, Page>>

\* slab.design() (line 838), called once on the new instance
RunDesign ==
    /\ ctx[1].pc # "done"
    /\ Step(1)

\* lines 839-852: after design() has returned, the results and the span and
\* support condition are stored in the session and the run goes on to the
\* display; after an exception the error is shown and st.stop() ends the run
\* with nothing stored and nothing displayed
FinishCalculate ==
    /\ ctx[1].pc \in {"done", "failed"}
    /\ IF ctx[1].pc = "done"
       THEN /\ session_state' =
                 [results |-> Some(View(ctx[1].ret[1])),
                  inputs  |-> Some([clear_span |-> widgets.in.clear_span,
                                    support_condition |-> widgets.in.support_condition])]
            /\ rendered' = Display(widgets, session_state')
            /\ ctx' = [ctx EXCEPT ![1].pc = "stored"]
       ELSE /\ session_state' = session_state
            /\ rendered' = None
            /\ ctx' = [ctx EXCEPT ![1].pc = "stopped"]
    /\ UNCHANGED <<widgets, Tables>>

\* the Start New Design button (lines 1073-1076), shown below displayed
\* results: it clears the stored results and st.rerun() runs the script again
StartNewDesign ==
    /\ Idle
    /\ rendered # None
    /\ session_state' = [session_state EXCEPT !.results = None]
    /\ rendered' = Display(widgets, session_state')
    /\ UNCHANGED <<widgets, ctx, Tables>>

NextSession ==
    \/ EditInput
    \/ ClickCalculate
    \/ RunDesign
    \/ FinishCalculate
    \/ StartNewDesign

SpecSession == Init /\ [][NextSession]_vars


(***************************************************************************)
(* Properties                                                              *)
(***************************************************************************)
Slabs == DOMAIN ctx

\* the stages of design() that follow the named one
AfterThickness == {"load", "moments", "depth", "steel", "shrinkage", "shear", "return", "done"}

AfterMoments == {"depth", "steel", "shrinkage", "shear", "return", "done"}

InvalidInput(s) ==
    /\ s.inputs # None
    /\ \/ s.inputs[1].clear_span <= 0
       \/ s.inputs[1].fc_prime <= 0
       \/ s.inputs[1].fy <= 0

\* C1: design() rejects every configuration whose effective depth
\* d = thickness - cover - main_bar_diameter/2 is <= 0: it returns no result
\* record for it.  Stated for configurations whose span, f'c and fy are
\* positive: no result returned for one carries an effective depth <= 0.
C1_RejectsNonPositiveDepth ==
    \A c \in Slabs : \A i \in DOMAIN ctx[c].ret :
        ~InvalidInput(ctx[c]) => ctx[c].ret[i].effective_depth[1] > 0

\* C2: design() called with a non-positive clear span, f'c or fy fails before
\* any calculation stage runs: once past the entry of design() the run has
\* failed, nothing was returned, and every accumulator field still has its
\* initial value.
AccumulatorsInitial(s) ==
    /\ s.h = NewSlab.h /\ s.d = NewSlab.d /\ s.wu = NewSlab.wu
    /\ s.moments = NewSlab.moments /\ s.reinforcement = NewSlab.reinforcement
    /\ s.shrinkage = NewSlab.shrinkage /\ s.shear = NewSlab.shear
    /\ s.notes = NewSlab.notes

C2_FailsFastOnInvalidInput ==
    \A c \in Slabs :
        (InvalidInput(ctx[c]) /\ ctx[c].pc \in AfterThickness \cup {"failed"})
        => /\ ctx[c].pc = "failed"
           /\ ctx[c].ret = <<>>
           /\ AccumulatorsInitial(ctx[c])

\* C3: selecting a bar whose name is not one of the nine catalog sizes fails
\* with an error and creates no bar, and BAR_DATA is the same catalog after
\* the failed selection; selecting a catalog name yields exactly that entry's
\* diameter and area.
NineSizes == {"#10", "#13", "#16", "#19", "#22", "#25", "#29", "#32", "#36"}

SelectionOutcome(s, name, bar) ==
    IF name \in NineSizes
    THEN bar = Some([bar_size |-> name,
                     diameter |-> BarCatalog[name].diameter,
                     area |-> BarCatalog[name].area])
    ELSE /\ bar = None
         /\ s.pc = "failed" /\ s.err = "ValueError" /\ s.at = "init"
         /\ s.ret = <<>>
         /\ BAR_DATA = BarCatalog

C3_BarSelection ==
    /\ DOMAIN BarCatalog = NineSizes
    /\ \A c \in Slabs :
         ctx[c].inputs # None =>
            /\ SelectionOutcome(ctx[c], ctx[c].inputs[1].main_bar, ctx[c].main_bar)
            /\ ctx[c].main_bar # None =>
                 SelectionOutcome(ctx[c], ctx[c].inputs[1].shrinkage_bar,
                                  ctx[c].shrinkage_bar)

C3_Witness ==
    \E c \in Slabs :
        /\ ctx[c].inputs # None
        /\ ctx[c].inputs[1].main_bar \notin NineSizes
        /\ ctx[c].pc = "failed"
        /\ ctx[c].main_bar = None

\* C4: whenever a positive user override thickness is supplied, the thickness
\* stage resolves the thickness to the override value, and it appends an
\* advisory note if and only if the override is strictly less than the
\* rounded code-minimum thickness; in that case exactly one note is appended.
ClaimDivisor(support_condition) ==
    CASE support_condition = "simply_supported" -> 20
      [] support_condition = "one_end_continuous" -> 24
      [] support_condition = "both_ends_continuous" -> 28
      [] support_condition = "cantilever" -> 10

\* m is the smallest multiple of 10 that is >= span / divisor
IsCodeMinimum(m, span, divisor) ==
    /\ m % 10 = 0
    /\ m * divisor >= span
    /\ (m - 10) * divisor < span

ThicknessRan(c) == ctx[c].pc = "thickness" /\ ctx'[c].pc # "thickness"

C4_OverrideStep(c) ==
    LET s   == ctx[c]
        t   == ctx'[c]
        div == ClaimDivisor(s.support_condition[1])
        below == \E m \in {10 * k : k \in -20..60} :
                     /\ IsCodeMinimum(m, s.clear_span[1], div)
                     /\ s.user_h[1] < m
    IN (ThicknessRan(c) /\ s.user_h # None /\ s.user_h[1] > 0)
       => /\ t.h = s.user_h
          /\ below => (Len(t.notes) = Len(s.notes) + 1
                       /\ SubSeq(t.notes, 1, Len(s.notes)) = s.notes)
          /\ ~below => t.notes = s.notes

C4_OverrideWins == [][\A c \in Slabs : C4_OverrideStep(c)]_vars

C4_Witness ==
    \E c \in Slabs :
        /\ ctx[c].pc = "load" /\ ctx[c].calls = 1
        /\ ctx[c].user_h = Some(50)
        /\ ctx[c].clear_span = Some(3500)
        /\ ctx[c].h = Some(50)
        /\ Len(ctx[c].notes) = 1


\* C5: with no override, for every clear span in (0, 10000] mm and every
\* support condition, the resolved thickness is a positive multiple of 10 mm
\* and is the smallest multiple of 10 that is >= span/divisor (divisor 20, 24,
\* 28, 10); span 3500 simply supported gives 180, span 1500 cantilever 150.
C5_MinimumThickness ==
    \A c \in Slabs :
        LET s == ctx[c]
        IN (s.h # None /\ s.user_h = None
            /\ s.clear_span[1] > 0 /\ s.clear_span[1] <= MaxSpan)
           => /\ s.h[1] > 0
              /\ IsCodeMinimum(s.h[1], s.clear_span[1],
                               ClaimDivisor(s.support_condition[1]))
              /\ (s.clear_span[1] = 3500 /\ s.support_condition[1] = "simply_supported")
                     => s.h[1] = 180
              /\ (s.clear_span[1] = 1500 /\ s.support_condition[1] = "cantilever")
                     => s.h[1] = 150

C5_Witness ==
    \E c \in Slabs :
        /\ ctx[c].pc = "load" /\ ctx[c].user_h = None
        /\ ctx[c].clear_span = Some(3500)
        /\ ctx[c].support_condition = Some("simply_supported")
        /\ ctx[c].h = Some(180)

\* C6: after the moment stage the key set of the moments map depends only on
\* the support condition: 1 key for simply supported (1/8), 3 for one end
\* continuous (1/24, 1/14, 1/10), 2 for both ends continuous (1/11, 1/16),
\* 1 for cantilever (1/2); each value is coefficient * wu * (span/1000)^2.
ClaimMoments(support_condition) ==
    CASE support_condition = "simply_supported" ->
           ("Positive Moment (Midspan)" :> 8)
      [] support_condition = "one_end_continuous" ->
           ("Negative Moment (Exterior Support)" :> 24) @@
           ("Positive Moment (Midspan)" :> 14) @@
           ("Negative Moment (First Interior Support)" :> 10)
      [] support_condition = "both_ends_continuous" ->
           ("Negative Moment (Supports)" :> 11) @@
           ("Positive Moment (Midspan)" :> 16)
      [] support_condition = "cantilever" ->
           ("Negative Moment (Support)" :> 2)

ClaimCardinality(support_condition) ==
    CASE support_condition = "simply_supported" -> 1
      [] support_condition = "one_end_continuous" -> 3
      [] support_condition = "both_ends_continuous" -> 2
      [] support_condition = "cantilever" -> 1

C6_MomentKeys ==
    \A c \in Slabs :
        LET s == ctx[c]
            k == ClaimMoments(s.support_condition[1])
        IN s.pc \in AfterMoments
           => /\ DOMAIN s.moments = DOMAIN k
              /\ Cardinality(DOMAIN s.moments) = ClaimCardinality(s.support_condition[1])
              /\ \A loc \in DOMAIN s.moments :
                   s.moments[loc] = SMulDiv(s.wu[1], s.clear_span[1] * s.clear_span[1],
                                            100000 * k[loc])

C6_Witness ==
    \E c \in Slabs :
        /\ ctx[c].pc = "depth"
        /\ ctx[c].support_condition = Some("one_end_continuous")
        /\ Cardinality(DOMAIN ctx[c].moments) = 3
        /\ \A loc \in DOMAIN ctx[c].moments : ctx[c].moments[loc] > 0

\* C7 as claimed: for every flexural reinforcement entry, spacing_final is a
\* multiple of 25, is >= 75, and is <= min(spacing_req, 3*thickness, 450).
\* Stated for configurations with positive span, f'c, fy and effective depth.
FlexuralEntries(s) == {s.reinforcement[loc] : loc \in DOMAIN s.reinforcement}

C7_SpacingWithinRequired ==
    \A c \in Slabs : \A e \in FlexuralEntries(ctx[c]) :
        (~InvalidInput(ctx[c]) /\ ctx[c].d[1] > 0)
        => /\ e.spacing_final % 25 = 0
           /\ e.spacing_final >= 75
           /\ 1000 * e.spacing_final
                <= Min(e.spacing_req, 1000 * Min(3 * ctx[c].h[1], 450))

\* C7 amended: for every flexural reinforcement entry, spacing_final is a
\* multiple of 25, is >= 75, and is <= max(75, min(spacing_req, 3*thickness,
\* 450)): it exceeds min(spacing_req, 3*thickness, 450) only when that
\* minimum is below 75, and then it is exactly 75.
C7_SpacingWithinRequiredOrFloor ==
    \A c \in Slabs : \A e \in FlexuralEntries(ctx[c]) :
        LET cap == Min(e.spacing_req, 1000 * Min(3 * ctx[c].h[1], 450))
        IN /\ e.spacing_final % 25 = 0
           /\ e.spacing_final >= 75
           /\ 1000 * e.spacing_final <= Max(75000, cap)
           /\ 1000 * e.spacing_final > cap => (cap < 75000 /\ e.spacing_final = 75)

C7_Witness ==
    \E c \in Slabs : \E e \in FlexuralEntries(ctx[c]) :
        /\ ~InvalidInput(ctx[c]) /\ ctx[c].d[1] > 0
        /\ e.spacing_req > 0 /\ e.spacing_req < 75000
        /\ e.spacing_final = 75

\* C8: for every shrinkage reinforcement result, spacing_final is a multiple
\* of 25 with no lower floor applied (it is the largest multiple of 25 within
\* the limit) and is <= min(spacing_req, 5*thickness, 450), where
\* spacing_req = 1000*bar_area/As_req and As_req = 0.0020*1000*thickness if
\* fy < 420, else 0.0018*420/fy*1000*thickness.
RECURSIVE Gcd(_, _)
Gcd(a, b) == IF b = 0 THEN a ELSE Gcd(b, a % b)

\* equality of two fractions n/d, d # 0, by their lowest terms
LowestTerms(p) ==
    LET g == Gcd(Abs(p[1]), Abs(p[2]))
    IN <<Sign(p[2]) * (p[1] \div g), Abs(p[2]) \div g>>

FracEq(p, q) == LowestTerms(p) = LowestTerms(q)

C8_ShrinkageSpacing ==
    \A c \in Slabs :
        ctx[c].shrinkage # None /\ ctx[c].pc \in {"shear", "return", "done"} =>
          LET r   == ctx[c].shrinkage[1]
              h   == ctx[c].h[1]
              fy  == ctx[c].material[1].fy
              lim == FracMin(r.spacing_req, <<Min(5 * h, 450), 1>>)
          IN /\ r.spacing_final % 25 = 0
             /\ FracLe(<<r.spacing_final, 1>>, lim)
             /\ ~FracLe(<<r.spacing_final + 25, 1>>, lim)
             \* As_req
             /\ fy < 420  => r.As_req[1] = 2 * h * r.As_req[2]
             /\ fy >= 420 => r.As_req[1] * fy = 756 * h * r.As_req[2]
             \* spacing_req = 1000 * bar_area / As_req
             /\ FracEq(r.spacing_req, <<1000 * r.bar_area * r.As_req[2], r.As_req[1]>>)

C8_Witness ==
    \E c \in Slabs :
        /\ ctx[c].pc = "shear" /\ ~InvalidInput(ctx[c])
        /\ ctx[c].shrinkage # None
        /\ ctx[c].shrinkage[1].spacing_final > 0
        /\ ctx[c].shrinkage[1].spacing_final < 75


\* C9: in the shear check, utilization equals Vu/phiVc*100 when phiVc > 0 and
\* equals 0 when phiVc = 0; the check never performs a division by zero,
\* whatever Vu is.
C9_UtilizationGuard ==
    \A c \in Slabs :
        /\ ~(ctx[c].pc = "failed" /\ ctx[c].at = "shear"
             /\ ctx[c].err = "ZeroDivisionError")
        /\ (ctx[c].pc \in {"return", "done"} /\ ctx[c].shear # None) =>
             LET r == ctx[c].shear[1]
             IN /\ r.phiVc > 0 => r.utilization = MulDiv(r.Vu, 10000, r.phiVc)
                /\ r.phiVc = 0 => r.utilization = 0

C9_Witness ==
    \E c \in Slabs :
        /\ ctx[c].pc = "return" /\ ctx[c].shear # None
        /\ ctx[c].shear[1].phiVc = 0
        /\ ctx[c].shear[1].utilization = 0

\* C10: two design() runs given identical inputs, each on its own freshly
\* constructed instance, end alike (both fail with the same error or both
\* return identical result records) under every interleaving of their
\* stages; no step of one run changes the other instance, and the class-level
\* tables are never written.
FirstRunOver(s) == s.calls = 1 /\ s.pc \in {"done", "failed"}

C10_SameOutcome ==
    \A c1, c2 \in Slabs :
        (c1 # c2 /\ ctx[c1].inputs # None /\ ctx[c1].inputs = ctx[c2].inputs
         /\ FirstRunOver(ctx[c1]) /\ FirstRunOver(ctx[c2]))
        => /\ ctx[c1].pc = ctx[c2].pc
           /\ ctx[c1].err = ctx[c2].err
           /\ Len(ctx[c1].ret) = Len(ctx[c2].ret)
           /\ \A i \in DOMAIN ctx[c1].ret : View(ctx[c1].ret[i]) = View(ctx[c2].ret[i])

C10_StepIsolated ==
    /\ UNCHANGED Tables
    /\ \A c1, c2 \in Slabs :
         (c1 # c2 /\ ctx'[c1] # ctx[c1]) => ctx'[c2] = ctx[c2]

C10_RunsIndependent == [](C10_SameOutcome) /\ [][C10_StepIsolated]_vars

C10_Witness ==
    \E c1, c2 \in Slabs :
        /\ c1 # c2 /\ ctx[c1].inputs = ctx[c2].inputs
        /\ ctx[c1].calls = 1 /\ ctx[c1].pc = "done"
        /\ ctx[c2].calls = 1 /\ ctx[c2].pc = "done"
        /\ Len(ctx[c1].notes) = 1
        /\ View(ctx[c1].ret[1]) = View(ctx[c2].ret[1])

\* C11 as claimed: the result record returned by design() is an immutable
\* snapshot; no later step (a further design() on the same instance included)
\* changes anything observable through a result already returned: its notes,
\* moments, reinforcement, shrinkage and shear stay as they were.  Stated for
\* configurations with positive span, f'c and fy.
ViewNext(r) == [r EXCEPT !.notes = ctx'[r.notes.ref].notes]

C11_ResultIsSnapshot ==
    [][\A c \in Slabs : \A i \in DOMAIN ctx[c].ret :
          ~InvalidInput(ctx[c]) =>
          /\ i \in DOMAIN ctx'[c].ret
          /\ ViewNext(ctx'[c].ret[i]) = View(ctx[c].ret[i])]_vars

\* C12: every design() call ends either Completed, having returned one result
\* record whose thickness, effective depth, factored load, moments, shrinkage
\* and shear were all written by that run (they are what a freshly built
\* instance with the same attributes computes), or Failed, with an error and
\* no result returned; no returned record has one of these fields missing or
\* at its initial empty value.
Populated(r) ==
    /\ r.thickness # None /\ r.effective_depth # None
    /\ r.factored_load # None /\ r.moments # EmptyMap
    /\ r.shrinkage # None /\ r.shear # None

\* the attributes of s on an instance that has never been designed
AsFresh(s) ==
    [NewSlab EXCEPT !.clear_span = s.clear_span, !.material = s.material,
                    !.loads = s.loads, !.support_condition = s.support_condition,
                    !.main_bar = s.main_bar, !.shrinkage_bar = s.shrinkage_bar,
                    !.user_h = s.user_h]

SameDesign(r, f) ==
    /\ r.thickness = f.thickness /\ r.effective_depth = f.effective_depth
    /\ r.factored_load = f.factored_load /\ r.moments = f.moments
    /\ r.reinforcement = f.reinforcement
    /\ r.shrinkage = f.shrinkage /\ r.shear = f.shear

InDesign == {"thickness", "load", "moments", "depth", "steel", "shrinkage",
             "shear", "return"}

C12_CompletedOrFailed ==
    \A c \in Slabs :
        LET s == ctx[c]
        IN /\ \A i \in DOMAIN s.ret : Populated(s.ret[i])
           /\ s.pc \in InDesign => Len(s.ret) = s.calls - 1
           /\ (s.pc = "failed" /\ s.calls > 0) =>
                /\ Len(s.ret) = s.calls - 1
                /\ s.err # ""
                /\ ~DesignOf(AsFresh(s)).ok
           /\ s.pc = "done" =>
                /\ Len(s.ret) = s.calls
                /\ s.err = ""
                /\ DesignOf(AsFresh(s)).ok
                /\ SameDesign(s.ret[s.calls], DesignOf(AsFresh(s)).result)

\* a second run, on attributes that differ from the first run's, has completed
C12_Witness ==
    \E c \in Slabs :
        /\ ctx[c].calls = 2 /\ ctx[c].pc = "done"
        /\ ~SameDesign(ctx[c].ret[1], ctx[c].ret[2])
        /\ DOMAIN ctx[c].ret[1].moments # DOMAIN ctx[c].ret[2].moments

\* C13 as claimed: when the flexural discriminant term = 1 - 2*m*Rn/fy of a
\* moment is negative, design() does not fail, the entry's rho is 0.02, and
\* the notes of the returned result contain an entry recording the
\* over-reinforced condition.  Stated for configurations with positive span,
\* f'c, fy and effective depth.
TermOfEntry(s, e) == TermOf(e.Rn, s.material[1].fc_prime)

C13_OverReinforcedRecorded ==
    \A c \in Slabs : \A e \in FlexuralEntries(ctx[c]) :
        (~InvalidInput(ctx[c]) /\ ctx[c].d[1] > 0 /\ TermOfEntry(ctx[c], e) < 0)
        => /\ e.rho = RhoCeiling
           /\ ctx[c].pc # "failed"
           /\ ctx[c].pc = "done" =>
                \E i \in DOMAIN ctx[c].notes :
                    ctx[c].notes[i].warning = "over_reinforced"

\* C14: self_weight = (thickness/1000) * density, total_dead = superimposed
\* dead + self_weight and wu = 1.2*total_dead + 1.6*live.  Scenario A (span
\* 3500 simply supported, density 25, dead 1.5, live 3.0, no override) gives
\* thickness 180, self-weight 4.5, wu 12.0 and the single moment
\* "Positive Moment (Midspan)" = 18.375.
AfterLoad == {"moments"} \cup AfterMoments

ScenarioA(s) ==
    /\ s.inputs # None
    /\ s.inputs[1].clear_span = 3500
    /\ s.inputs[1].support_condition = "simply_supported"
    /\ s.inputs[1].concrete_density = 250
    /\ s.inputs[1].superimposed_dead = 15
    /\ s.inputs[1].live_load = 30
    /\ s.inputs[1].user_thickness = None

C14_FactoredLoad ==
    \A c \in Slabs :
        LET s == ctx[c]
        IN /\ s.pc \in AfterLoad =>
                \* in 1e-5 kN/m: thickness in mm, density and loads in 1/10
                /\ 1000 * s.self_weight[1]
                     = s.h[1] * (10000 * s.material[1].concrete_density)
                /\ s.total_dead[1]
                     = 10000 * s.loads[1].superimposed_dead + s.self_weight[1]
                /\ 10 * s.wu[1]
                     = 12 * s.total_dead[1] + 16 * (10000 * s.loads[1].live_load)
           /\ (ScenarioA(s) /\ s.pc \in AfterMoments) =>
                /\ s.h = Some(180)
                /\ s.self_weight = Some(450000)
                /\ s.wu = Some(1200000)
                /\ s.moments = [loc \in {"Positive Moment (Midspan)"} |-> 18375000]

C14_Witness ==
    \E c \in Slabs :
        /\ ScenarioA(ctx[c]) /\ ctx[c].pc = "done"
        /\ ctx[c].ret[1].thickness = Some(180)
        /\ ctx[c].ret[1].factored_load = Some(1200000)
        /\ ctx[c].ret[1].moments["Positive Moment (Midspan)"] = 18375000

\* C15: within one design() run the stages execute exactly once each in the
\* order thickness, factored load, moments, effective depth, flexural sizing
\* (once per moment), shrinkage sizing, shear check, result assembly, with no
\* branch back and no retry; and no stage reads h, wu, moments or d before
\* the stage that computes it in this run has written it: when a stage is
\* about to run, each of these fields that an earlier stage computes holds
\* what this run's stages compute from the instance's current attributes.
StageAfter(s) ==
    CASE s.pc = "configured" -> {"thickness"}
      [] s.pc = "done"       -> {"thickness", "configured"}
      [] s.pc = "thickness"  -> {"load"}
      [] s.pc = "load"       -> {"moments"}
      [] s.pc = "moments"    -> {"depth"}
      [] s.pc = "depth"      -> {"steel"}
      [] s.pc = "steel"      -> {"shrinkage", "failed"}
      [] s.pc = "shrinkage"  -> {"shear", "failed"}
      [] s.pc = "shear"      -> {"return", "failed"}
      [] s.pc = "return"     -> {"done"}
      [] OTHER               -> {"configured", "failed"}

C15_StageStep(c) ==
    LET s == ctx[c]
        t == ctx'[c]
    IN t # s =>
        /\ t.pc # s.pc => t.pc \in StageAfter(s)
        \* the only stage that takes more than one step: one moment per step
        /\ t.pc = s.pc => s.pc = "steel"
        /\ s.pc = "depth" =>
              /\ Len(t.todo) = Cardinality(DOMAIN t.moments)
              /\ {t.todo[i] : i \in DOMAIN t.todo} = DOMAIN t.moments
        /\ s.pc = "steel" =>
              /\ s.todo # <<>>
              /\ t.pc # "failed" => t.todo = Tail(s.todo)
              /\ t.pc = "shrinkage" <=> (t.pc # "failed" /\ Tail(s.todo) = <<>>)

C15_WrittenBeforeRead ==
    \A c \in Slabs :
        LET s  == ctx[c]
            f  == AsFresh(s)
            f1 == calculate_initial_thickness(f, f.clear_span[1],
                                              f.support_condition[1], f.user_h)
            f2 == calculate_factored_load(f1)
            f3 == calculate_moments(f2)
            f4 == calculate_effective_depth(f3)
        IN /\ s.pc \in AfterThickness \ {"done"} => s.h = f1.h
           /\ s.pc \in AfterLoad \ {"done"} => s.wu = f2.wu
           /\ s.pc \in AfterMoments \ {"done"} => s.moments = f3.moments
           /\ s.pc \in {"steel", "shrinkage", "shear", "return"} => s.d = f4.d

C15_StagesInOrder ==
    [](C15_WrittenBeforeRead) /\ [][\A c \in Slabs : C15_StageStep(c)]_vars

\* the shear check of a second run is about to read a depth and a load that
\* differ from the first run's
C15_Witness ==
    \E c \in Slabs :
        /\ ctx[c].calls = 2 /\ ctx[c].pc = "shear"
        /\ ctx[c].d # ctx[c].ret[1].effective_depth
        /\ ctx[c].wu # ctx[c].ret[1].factored_load
        /\ Cardinality(DOMAIN ctx[c].moments) = 3
        /\ Cardinality(DOMAIN ctx[c].ret[1].moments) = 1

\* C16: the shear demand is Vu = max(0, wu*(L/2 - d)) for simply supported
\* and both ends continuous, max(0, max(wu*(L/2 - d), wu*(0.575*L - d))) for
\* one end continuous and max(0, wu*L) for cantilever; the status is PASS if
\* and only if Vu <= phiVc, with phiVc = 0.75*0.17*sqrt(f'c)*d, and FAIL
\* otherwise; a FAIL never changes the thickness.
\* wu*(k*L - d) in 1e-6 kN, k given in thousandths, L in mm, d in 1/20 mm
ClaimShearAt(wu, k, L, d) == SMulDiv(wu, 20 * k * L - 1000 * d, 2000000)

ClaimVu(support_condition, wu, L, d) ==
    Max(0, CASE support_condition \in {"simply_supported", "both_ends_continuous"} ->
                  ClaimShearAt(wu, 500, L, d)
             [] support_condition = "one_end_continuous" ->
                  Max(ClaimShearAt(wu, 500, L, d), ClaimShearAt(wu, 575, L, d))
             [] support_condition = "cantilever" -> SMulDiv(wu, L, 100))

\* 0.75*0.17 = 0.1275; sqrt(f'c) in 1e-5, d in 1/20 mm
ClaimPhiVc(fc_prime, d) == SMulDiv(1275 * d, Sqrt100(1000000 * fc_prime), 20000)

C16_ShearState ==
    \A c \in Slabs :
        LET s == ctx[c]
        IN (s.pc \in {"return", "done"}) =>
            LET r == s.shear[1]
            IN /\ r.Vu = ClaimVu(s.support_condition[1], s.wu[1], s.clear_span[1], s.d[1])
               /\ r.phiVc = ClaimPhiVc(s.material[1].fc_prime, s.d[1])
               /\ r.status \in {"PASS", "FAIL"}
               /\ r.status = "PASS" <=> r.Vu <= r.phiVc
               \* the thickness is still the one the thickness stage chose
               /\ s.h = IF Truthy(s.user_h) THEN s.user_h
                        ELSE Some(HRounded(s.clear_span[1],
                                  ClaimDivisor(s.support_condition[1])))
               /\ s.pc = "done" => s.ret[s.calls].thickness = s.h

C16_ShearStep(c) ==
    ctx[c].pc = "shear" =>
        /\ ctx'[c].h = ctx[c].h
        /\ ctx'[c].user_h = ctx[c].user_h
        /\ ctx'[c].pc \in {"shear", "return", "failed"}

C16_ShearCheck ==
    [](C16_ShearState) /\ [][\A c \in Slabs : C16_ShearStep(c)]_vars

C16_Witness ==
    \E c \in Slabs :
        /\ ~InvalidInput(ctx[c]) /\ ctx[c].pc = "done"
        /\ ctx[c].support_condition = Some("one_end_continuous")
        /\ ctx[c].shear[1].status = "FAIL"
        /\ ctx[c].shear[1].Vu > ClaimShearAt(ctx[c].wu[1], 500, ctx[c].clear_span[1], ctx[c].d[1])
        /\ ctx[c].ret[1].thickness = ctx[c].user_h

\* C17: in every returned result the keys of the reinforcement map are a
\* subset of the keys of the moments map, and a location has a reinforcement
\* entry if and only if its moment is > 0; a moment <= 0 yields no entry and
\* no error, so with zero factored load the reinforcement map is empty.
C17_ReinforcementKeys ==
    \A c \in Slabs :
        LET s == ctx[c]
        IN /\ \A i \in DOMAIN s.ret :
                LET r == s.ret[i]
                IN /\ DOMAIN r.reinforcement \subseteq DOMAIN r.moments
                   /\ \A loc \in DOMAIN r.moments :
                        loc \in DOMAIN r.reinforcement <=> r.moments[loc] > 0
                   /\ r.factored_load = Some(0) => r.reinforcement = EmptyMap
           \* the flexural stage raises nothing while no moment is positive
           /\ (s.pc = "failed" /\ s.at = "steel") =>
                \E loc \in DOMAIN s.moments : s.moments[loc] > 0

C17_Witness ==
    \E c \in Slabs :
        /\ ctx[c].calls = 2 /\ ctx[c].pc = "done"
        /\ ctx[c].ret[1].reinforcement # EmptyMap
        /\ ctx[c].ret[2].factored_load = Some(0)
        /\ ctx[c].ret[2].reinforcement = EmptyMap
        /\ ctx[c].ret[2].moments # EmptyMap

\* C18 as claimed: repeated design() calls on the same instance do not
\* accumulate state: the notes of each returned result are the advisory notes
\* that run produced (at most one below-minimum note), and a later call with
\* unchanged attributes returns the design the first call returned.  Stated
\* for configurations with positive span, f'c and fy.
C18_NoAccumulation ==
    \A c \in Slabs :
        LET s == ctx[c]
        IN (~InvalidInput(s) /\ s.pc = "done") =>
            LET r == View(s.ret[s.calls])
            IN /\ Len(r.notes) <= 1
               /\ r.notes = DesignOf(AsFresh(s)).result.notes
               /\ SameDesign(s.ret[s.calls], s.ret[1])

\* C19 as claimed: for every flexural reinforcement entry the provided steel
\* area is at least the governing required area, As_prov >= As_final, where
\* As_final = max(As_req, As_min) and As_min = 0.0020*Ag if fy < 420, else
\* max(0.0018*420/fy*Ag, 0.0014*Ag), Ag = 1000*thickness.  Stated for
\* configurations with positive span, f'c, fy and effective depth.
\* As_min in 1/100 mm2
ClaimAsMin(h, fy) ==
    IF fy < 420 THEN 20 * (10 * h)
    ELSE Max(SMulDiv(18 * 420 * h, 10, fy), 14 * (10 * h))

C19_ProvidedCoversRequired ==
    \A c \in Slabs : \A e \in FlexuralEntries(ctx[c]) :
        (~InvalidInput(ctx[c]) /\ ctx[c].d[1] > 0)
        => /\ e.As_prov >= e.As_final
           /\ e.As_final = Max(e.As_req, e.As_min)
           /\ e.As_min = ClaimAsMin(ctx[c].h[1], ctx[c].material[1].fy)

\* C19 amended: for every flexural reinforcement entry As_final = max(As_req,
\* As_min) with As_min as stated, and As_prov >= As_final whenever the
\* required spacing is at least 75 mm; when spacing_req < 75 the spacing is
\* held at the 75 mm floor and As_prov = 1000*bar_area/75 is less than
\* As_final.
C19_ProvidedCoversRequiredAboveFloor ==
    \A c \in Slabs : \A e \in FlexuralEntries(ctx[c]) :
        (~InvalidInput(ctx[c]) /\ ctx[c].d[1] > 0)
        => /\ e.As_final = Max(e.As_req, e.As_min)
           /\ e.As_min = ClaimAsMin(ctx[c].h[1], ctx[c].material[1].fy)
           /\ e.spacing_req >= 75000 => e.As_prov >= e.As_final
           /\ e.spacing_req < 75000 =>
                /\ e.spacing_final = 75
                /\ e.As_prov = (100000 * e.bar_area) \div 75
                /\ e.As_prov < e.As_final

C19_Witness ==
    \E c \in Slabs : \E e \in FlexuralEntries(ctx[c]) :
        /\ ~InvalidInput(ctx[c]) /\ ctx[c].d[1] > 0 /\ ctx[c].pc = "done"
        /\ e.spacing_req < 75000
        /\ e.As_prov < e.As_final
        /\ e.As_final = e.As_req /\ e.As_req > e.As_min

\* C20 as claimed: the steel ratio rho of any flexural reinforcement entry
\* never exceeds the fixed ceiling 0.02, whether the discriminant term is
\* negative or non-negative.  Stated for configurations with positive span,
\* f'c, fy and effective depth.
C20_RhoWithinCeiling ==
    \A c \in Slabs : \A e \in FlexuralEntries(ctx[c]) :
        (~InvalidInput(ctx[c]) /\ ctx[c].d[1] > 0) => e.rho <= RhoCeiling

\* C20 amended: rho is exactly 0.02 when the discriminant term is negative;
\* when term >= 0, rho = (0.85*f'c/fy) * (1 - sqrt(term)), which lies between
\* 0 and 0.85*f'c/fy and is not limited to 0.02.
C20_RhoCeilingOnlyBelowZero ==
    \A c \in Slabs : \A e \in FlexuralEntries(ctx[c]) :
        (~InvalidInput(ctx[c]) /\ ctx[c].d[1] > 0) =>
            LET fc   == ctx[c].material[1].fc_prime
                fy   == ctx[c].material[1].fy
                term == TermOfEntry(ctx[c], e)
            IN /\ term < 0 => e.rho = RhoCeiling
               /\ term >= 0 =>
                    /\ e.rho = SMulDiv(85 * fc, 1000000 - Sqrt100(term), fy)
                    /\ e.rho >= 0
                    /\ e.rho <= SMulDiv(85 * fc, 1000000, fy)

C20_Witness ==
    \E c \in Slabs : \E e \in FlexuralEntries(ctx[c]) :
        /\ ~InvalidInput(ctx[c]) /\ ctx[c].d[1] > 0 /\ ctx[c].pc = "done"
        /\ TermOfEntry(ctx[c], e) >= 0
        /\ e.rho > RhoCeiling

\* C21 as claimed: in every shear result the status and the utilization
\* agree: the status is PASS if and only if utilization <= 100 and FAIL if and
\* only if utilization > 100, for every Vu >= 0 and every phiVc (positive,
\* zero or negative).  Stated for configurations with positive span, f'c and
\* fy.
\* utilization > 100 percent; the stored value is cut to 1/100 percent, so a
\* stored 100.00 is over 100 when the quotient Vu/phiVc it came from is not 1
UtilizationOver100(r) ==
    \/ r.utilization > 10000
    \/ r.utilization = 10000 /\ r.phiVc > 0 /\ r.Vu # r.phiVc

C21_StatusAgreesWithUtilization ==
    \A c \in Slabs :
        (~InvalidInput(ctx[c]) /\ ctx[c].pc \in {"return", "done"}) =>
            LET r == ctx[c].shear[1]
            IN /\ r.Vu >= 0
               /\ r.status = "PASS" <=> ~UtilizationOver100(r)
               /\ r.status = "FAIL" <=> UtilizationOver100(r)

\* C22 as claimed: in the calculator page, after any sequence of input
\* edits, Calculate clicks and Start New Design clicks, the results displayed
\* are those computed from the inputs shown with them: the displayed results
\* are what the widgets' current values compute, and whenever the report is
\* rendered its INPUT PARAMETERS section lists the inputs from which its
\* DESIGN RESULTS were computed.
C22_ResultsMatchInputsShown ==
    rendered # None =>
        /\ rendered[1].results = session_state.results[1]
        /\ CalculateOutcome(widgets.in).ok
        /\ rendered[1].results = CalculateOutcome(widgets.in).result
        /\ rendered[1].report # None =>
             \E in \in SessionInputs :
                /\ ReportInputs(in) = rendered[1].report[1].inputs
                /\ CalculateOutcome(in).ok
                /\ CalculateOutcome(in).result = rendered[1].report[1].results

====
